---- MODULE Spec2Model ----
(***************************************************************************)
(* V2Link: daisy-chained serial link.  A Link owns up to two Ports, the    *)
(* plug (towards the parent) and the socket (towards the children).  The   *)
(* model follows src/src/V2Link.h (variant "h", the complete inline class) *)
(* and src/src/V2Link.cpp (variant "cpp", the earlier out-of-line          *)
(* definitions of the same methods).  The serial peripheral is a receive   *)
(* queue, a transmit queue and the frame that is on the wire towards the   *)
(* receive queue; micros() is a 32-bit clock that wraps.                   *)
(***************************************************************************)
EXTENDS Integers, Sequences, FiniteSets, TLC

\* ------------------------------------------------------------------ bounds
\* Capacity of the peripheral's transmit buffer, in bytes.
TxSize == 9
\* Capacity of the peripheral's receive buffer, in bytes.
RxSize == 6
\* Number of clock advances in one behaviour.
MaxTicks == 3
\* Number of bytes that arrive one by one in one behaviour.
MaxBytes == 6
\* Number of frames that arrive in one burst each, and of Port.send calls of
\* the application, in a behaviour in which long times pass.
MaxOps == 2
\* Number of Port.send calls the application makes in a behaviour in which the
\* clock stands still.
MaxSends == 1
\* Number of Links in a chain.
MaxChain == 16

\* ------------------------------------------------------- program constants
\* A frame is five bytes: the header and four body bytes.
FrameSize == 5
\* The largest address the header's high nibble holds.
MaxAddress == 15
\* A partial frame is dropped when it is older than this many microseconds.
TimeoutUsec == 100
\* Port::idle() of the .cpp: quiet for this many microseconds.
QuietUsec == 1000
\* Port::powerDown(): the line is released after 100 * 1000 microseconds.
PowerDownUsec == 100000
\* micros(), the timestamps and the counters are unsigned and wrap.  They are
\* 32 bits wide on the target; TLC's integers end at 2^31 - 1, so they are 30
\* bits wide here.  Every interval the code measures is far shorter than either.
Wrap == 1073741824

Ports == {"plug", "socket"}

Other(p) == IF p = "plug" THEN "socket" ELSE "plug"

\* ------------------------------------------------------------ Packet codec
\* Packet::getType(): the low nibble of the header.
getType(data) == data[1] % 16

\* Packet::getAddress(): the high nibble of the header.
getAddress(data) == data[1] \div 16

\* A header that adds the whole stored byte to the address nibble.
Header_Unmasked(address, data) == ((address * 16) + data[1]) % 256

\* Port::send(): uint8_t header = address << 4; header |= _data[0] & 0x0f.
Header(address, data) == ((address * 16) % 256) + (data[1] % 16)

\* The five bytes Port::send() hands to the peripheral.
WireFrame(address, data) == <<Header(address, data)>> \o SubSeq(data, 2, FrameSize)

\* (unsigned long)(micros() - then)
Elapsed(now, then) == (now - then) % Wrap

\* --------------------------------------------------------------- the state
VARIABLES
  variant,   \* "h": V2Link.h, "cpp": V2Link.cpp
  present,   \* present[p]: the Link's pointer to port p is not null
  pinTx,     \* pinTx[p]: the port's transmit-enable pin, 0 when it has none
  begun,     \* begin() has run
  clock,     \* micros()
  port,      \* port[p]: _active, _usec, _timeoutUsec, statistics
  hw,        \* hw[p]: the peripheral's rx and tx queues, the wire, the pin
  pc,        \* the position of loop()
  rcv,       \* rcv[p]: what the receive step of port p did in this cycle
  snd,       \* snd[p]: the last Port.send call on port p in this cycle
  pd,        \* pd[p]: the last powerDown call on port p in this cycle
  hist,      \* hist[p]: when the pending partial frame was first polled, and
             \* when send was last called on port p
  idl,       \* what the last idle() call returned and saw
  chain,     \* a packet travelling along a chain of Links
  codec,     \* one use of the packet codec: its input and what it gave
  budget     \* the clock advances, bytes, frames and sends still to come

vars == <<variant, present, pinTx, begun, clock, port, hw, pc, rcv, snd, pd,
          hist, idl, chain, codec, budget>>

\* ----------------------------------------------------------------- Port
\* A Port as constructed: _active{}, _timeoutUsec{}, _usec{}, statistics{}.
NewPort == [active |-> FALSE, usec |-> 0, timeoutUsec |-> 0, input |-> 0, output |-> 0]

\* A Port of V2Link.h that has been quiet since the clock last passed zero and
\* has counted 2^32 - 1 packets each way.
WornPort == [NewPort EXCEPT !.input = Wrap - 1, !.output = Wrap - 1]

\* The peripheral and the pin before begin(): nothing received, nothing queued.
NewHw == [rx |-> <<>>, tx |-> <<>>, wire |-> <<>>, pin |-> "LOW"]

\* _uart->available()
available(H) == Len(H.rx)

\* _uart->availableForWrite()
availableForWrite(H) == TxSize - Len(H.tx)

\* A counter that stays at its largest value.
Count_Saturating(n) ==
  IF variant = "h" THEN (IF n + 1 = Wrap THEN n ELSE n + 1) ELSE n

\* statistics.input++, statistics.output++: 32-bit counters of V2Link.h; the
\* .cpp has none.
Count(n) == IF variant = "h" THEN (n + 1) % Wrap ELSE n

\* Port::begin(): V2Link.h drives the transmit-enable pin HIGH when there is one.
PortBegin(H, ptx) ==
  IF variant = "h" /\ ptx > 0 THEN [H EXCEPT !.pin = "HIGH"] ELSE H

\* The partial frame has run out of time: (unsigned long)(micros() - _timeoutUsec) > 100.
TimedOut(now, timeoutUsec) == Elapsed(now, timeoutUsec) > TimeoutUsec

\* A receive that takes a packet and flushes what is behind it.
PortReceive_Flush(P, H, now) ==
  IF available(H) = 0
  THEN [port |-> P, hw |-> H, ret |-> FALSE, data |-> <<>>, drained |-> 0]
  ELSE
    LET P1 == [P EXCEPT !.usec = now] IN
    IF available(H) < FrameSize
    THEN
      LET P2 == IF P1.timeoutUsec = 0 THEN [P1 EXCEPT !.timeoutUsec = now] ELSE P1 IN
      IF TimedOut(now, P2.timeoutUsec)
      THEN [port |-> [P2 EXCEPT !.timeoutUsec = 0], hw |-> [H EXCEPT !.rx = <<>>],
            ret |-> FALSE, data |-> <<>>, drained |-> available(H)]
      ELSE [port |-> P2, hw |-> H, ret |-> FALSE, data |-> <<>>, drained |-> 0]
    ELSE [port |-> [P1 EXCEPT !.timeoutUsec = 0, !.input = Count(@)],
          hw |-> [H EXCEPT !.rx = <<>>],
          ret |-> TRUE, data |-> SubSeq(H.rx, 1, FrameSize), drained |-> 0]

\* Port::receive(Packet *): [port, hw, ret, data, drained].  data is the packet
\* when ret is TRUE; drained counts the bytes read and dropped.
PortReceive(P, H, now) ==
  IF available(H) = 0
  THEN [port |-> P, hw |-> H, ret |-> FALSE, data |-> <<>>, drained |-> 0]
  ELSE
    LET P1 == [P EXCEPT !.usec = now] IN
    IF available(H) < FrameSize
    THEN
      LET P2 == IF P1.timeoutUsec = 0 THEN [P1 EXCEPT !.timeoutUsec = now] ELSE P1 IN
      IF TimedOut(now, P2.timeoutUsec)
      THEN [port |-> [P2 EXCEPT !.timeoutUsec = 0], hw |-> [H EXCEPT !.rx = <<>>],
            ret |-> FALSE, data |-> <<>>, drained |-> available(H)]
      ELSE [port |-> P2, hw |-> H, ret |-> FALSE, data |-> <<>>, drained |-> 0]
    ELSE [port |-> [P1 EXCEPT !.timeoutUsec = 0, !.input = Count(@)],
          hw |-> [H EXCEPT !.rx = SubSeq(@, FrameSize + 1, Len(@))],
          ret |-> TRUE, data |-> SubSeq(H.rx, 1, FrameSize), drained |-> 0]

\* The first lines of Port::send(): V2Link.h asserts the line and sets _active,
\* both variants take the time, all before the write space is looked at.
SendEnter(P, now) ==
  IF variant = "h" THEN [P EXCEPT !.active = TRUE, !.usec = now]
  ELSE [P EXCEPT !.usec = now]

\* digitalWrite(_pinTx, HIGH) on the rising edge of _active.
SendPin(P, H, ptx) ==
  IF variant = "h" /\ ~P.active /\ ptx > 0 THEN "HIGH" ELSE H.pin

\* A send that writes the header before it finds that the body does not fit.
PortSend_Partial(P, H, ptx, now, address, data) ==
  LET P1 == SendEnter(P, now)
      H1 == [H EXCEPT !.pin = SendPin(P, H, ptx)]
  IN IF availableForWrite(H1) < FrameSize
     THEN [port |-> P1,
           hw |-> IF availableForWrite(H1) > 0
                  THEN [H1 EXCEPT !.tx = Append(@, Header(address, data))] ELSE H1,
           ret |-> FALSE, wrote |-> <<>>]
     ELSE [port |-> [P1 EXCEPT !.output = Count(@)],
           hw |-> [H1 EXCEPT !.tx = @ \o WireFrame(address, data)],
           ret |-> TRUE, wrote |-> WireFrame(address, data)]

\* Port::send(uint8_t address, Packet *): [port, hw, ret, wrote].
PortSend(P, H, ptx, now, address, data) ==
  LET P1 == SendEnter(P, now)
      H1 == [H EXCEPT !.pin = SendPin(P, H, ptx)]
  IN IF availableForWrite(H1) < FrameSize
     THEN [port |-> P1, hw |-> H1, ret |-> FALSE, wrote |-> <<>>]
     ELSE [port |-> [P1 EXCEPT !.output = Count(@)],
           hw |-> [H1 EXCEPT !.tx = @ \o WireFrame(address, data)],
           ret |-> TRUE, wrote |-> WireFrame(address, data)]

\* A powerDown() that still waits at exactly 100 ms.
PowerDownWaits_Inclusive(now, usec) == Elapsed(now, usec) <= PowerDownUsec

\* Port::powerDown() waits: (unsigned long)(micros() - _usec) < 100 * 1000.
PowerDownWaits(now, usec) == Elapsed(now, usec) < PowerDownUsec

\* A powerDown() that also throws away what is still queued for transmission.
PortPowerDown_Flush(P, H, ptx, now) ==
  IF ~P.active THEN [port |-> P, hw |-> H]
  ELSE IF PowerDownWaits(now, P.usec) THEN [port |-> P, hw |-> H]
  ELSE [port |-> [P EXCEPT !.active = FALSE],
        hw |-> [H EXCEPT !.pin = IF ptx > 0 THEN "LOW" ELSE @, !.tx = <<>>]]

\* Port::powerDown() of V2Link.h: [port, hw].
PortPowerDown(P, H, ptx, now) ==
  IF ~P.active THEN [port |-> P, hw |-> H]
  ELSE IF PowerDownWaits(now, P.usec) THEN [port |-> P, hw |-> H]
  ELSE [port |-> [P EXCEPT !.active = FALSE],
        hw |-> IF ptx > 0 THEN [H EXCEPT !.pin = "LOW"] ELSE H]

\* Port::idle(): !_active in V2Link.h; quiet for 1000 us and nothing to read in the .cpp.
PortIdle(P, H, now) ==
  IF variant = "h" THEN ~P.active
  ELSE IF Elapsed(now, P.usec) < QuietUsec THEN FALSE
  ELSE IF available(H) > 0 THEN FALSE
  ELSE TRUE

\* An idle() that asks the plug only.
LinkIdle_PlugOnly(pres, each) ==
  IF pres["plug"] /\ ~each["plug"] THEN FALSE ELSE TRUE

\* V2Link::idle(), given what each Port::idle() returns.
LinkIdle(pres, each) ==
  IF pres["plug"] /\ ~each["plug"] THEN FALSE
  ELSE IF pres["socket"] /\ ~each["socket"] THEN FALSE
  ELSE TRUE

\* loop(): a packet from the plug is for a child when its address is above 0.
PlugForwards(data) == getAddress(data) > 0

\* loop(): socket->send(packet.getAddress() - 1, &packet)
DownAddress(data) == getAddress(data) - 1

\* A socket step that forwards without looking at the address.
SocketForwards_NoLimit(plugPresent, data) == plugPresent

\* loop(): a packet from the socket goes on to the parent: plug && address < 0x0f.
SocketForwards(plugPresent, data) == plugPresent /\ getAddress(data) < MaxAddress

\* A relay that forgets the increment.
UpAddress_Same(data) == getAddress(data)

\* loop(): plug->send(packet.getAddress() + 1, &packet)
UpAddress(data) == getAddress(data) + 1

\* A plug step that hands every packet to the handler, as the socket step does.
PlugDispatch_Always(data) == <<data>>

\* A socket step that hands over only what it did not forward, as the plug step does.
SocketDispatch_Else(plugPresent, data) ==
  IF SocketForwards(plugPresent, data) THEN <<>> ELSE <<data>>

\* loop(): receivePlug(&packet) is the else branch of the forward to the socket.
\* The packets handed to the handler.
PlugDispatch(data) == IF PlugForwards(data) THEN <<>> ELSE <<data>>

\* loop(): receiveSocket(&packet) follows the forward to the plug, whatever it did.
SocketDispatch(plugPresent, data) == <<data>>

\* ------------------------------------------------------------ environment
\* The header bytes of the frames the peers put on the wire: address 0 MIDI,
\* address 14 Pulse, address 15 MIDI.
WireHeaders == {0, 225, 240}

\* The body of every frame on the wire.
WireBody == <<17, 34, 51, 68>>

\* The packets and addresses the application passes to Port.send.
AppPackets == {<<241, 5, 6, 7, 8>>}
AppAddresses == {9}

\* The amounts of time, in microseconds, that pass between two steps: around
\* the partial-frame timeout, and around the quiet and power-down intervals.
ShortDeltas == {1, 100}
LongDeltas == {100, 99900}

\* micros() when the Link is constructed: one microsecond before it wraps.
StartClock == Wrap - 1

\* The plug's port drives a transmit-enable pin, the socket's port has none.
PinOf == [q \in Ports |-> IF q = "plug" THEN 7 ELSE 0]

\* What one behaviour may hold: bytes that arrive one by one on one of the lines
\* and sends while the clock stands still; the same without the sends while
\* short times pass; whole frames and sends while long times pass.
Budgets ==
  { [ticks |-> 0, deltas |-> {}, bytes |-> MaxBytes, line |-> q, frames |-> 0,
     sends |-> MaxSends] : q \in Ports }
  \cup
  { [ticks |-> MaxTicks, deltas |-> ShortDeltas, bytes |-> MaxBytes - 1, line |-> q,
     frames |-> 0, sends |-> 0] : q \in Ports }
  \cup
  { [ticks |-> MaxTicks - 1, deltas |-> LongDeltas, bytes |-> 0, line |-> "plug",
     frames |-> f, sends |-> MaxOps - f] : f \in 0..MaxOps }

\* ------------------------------------------------------- what a step did
NoRcv == [polled |-> FALSE, at |-> 0, ret |-> FALSE, data |-> <<>>,
          pre |-> NewPort, post |-> NewPort, rxPre |-> <<>>, rxPost |-> <<>>,
          seen |-> FALSE, seenAt |-> 0, seenN |-> 0, cameAt |-> 0, handled |-> <<>>,
          txPre |-> [q \in Ports |-> <<>>], txPost |-> [q \in Ports |-> <<>>]]

NoSnd == [called |-> FALSE, at |-> 0, address |-> 0, data |-> <<>>, ret |-> FALSE,
          pre |-> NewPort, post |-> NewPort, preHw |-> NewHw, postHw |-> NewHw]

NoPd == [called |-> FALSE, at |-> 0, pre |-> NewPort, post |-> NewPort,
         preHw |-> NewHw, postHw |-> NewHw, acted |-> FALSE, actedAt |-> 0]

NoHist == [seen |-> FALSE, seenAt |-> 0, seenN |-> 0, cameAt |-> 0,
           sent |-> FALSE, sentAt |-> 0,
           acted |-> FALSE, actedAt |-> 0]

NoIdl == [called |-> FALSE, at |-> 0, ret |-> FALSE,
          each |-> [q \in Ports |-> FALSE], avail |-> [q \in Ports |-> 0],
          sent |-> [q \in Ports |-> FALSE], sentAt |-> [q \in Ports |-> 0]]

NoChain == [n |-> 1, ends |-> FALSE, pos |-> 1, dir |-> "up",
            data |-> <<0>> \o WireBody, hops |-> 0, done |-> TRUE,
            last |-> "none", lastAddress |-> 0, lastPresent |-> FALSE]

\* No pulse command.
NoPulse == [port |-> 0, watts |-> 0, seconds |-> 0, fadeIn |-> FALSE, fadeOut |-> FALSE]

\* The codec has not been used.
NoCodec == [op |-> "none", done |-> TRUE, address |-> 0, data |-> <<0>> \o WireBody,
            midi |-> <<>>, pulse |-> NoPulse, out |-> <<>>, ret |-> FALSE,
            got |-> <<>>]

\* What one Port.send call leaves in snd[p].
SndOf(P, H, now, address, data, s) ==
  [called |-> TRUE, at |-> now, address |-> address, data |-> data, ret |-> s.ret,
   pre |-> P, post |-> s.port, preHw |-> H, postHw |-> s.hw]

\* hist[p] after a send on port p: a send is activity of the port.
HistSent(h, now) ==
  [h EXCEPT !.sent = TRUE, !.sentAt = now, !.acted = TRUE, !.actedAt = now]

\* hist[p] after a poll of port p that saw n bytes and left m of them: a partial
\* frame is pending from the first poll that saw it until the queue is emptied or
\* a packet is taken from it.
\* A poll that finds bytes is activity of the port.
HistPolled(h, now, n, r) ==
  LET a == IF n > 0 THEN [h EXCEPT !.acted = TRUE, !.actedAt = now] ELSE h IN
  IF r.ret \/ available(r.hw) = 0
  THEN [a EXCEPT !.seen = FALSE, !.seenAt = 0, !.seenN = 0, !.cameAt = 0]
  ELSE IF a.seen THEN a
  ELSE [a EXCEPT !.seen = TRUE, !.seenAt = now, !.seenN = n]

\* hist[p] after a byte arrived at port p and made n bytes pending: the time the
\* byte came that completes a partial frame a poll has seen.
HistCame(h, now, n) == IF h.seen /\ n = FrameSize THEN [h EXCEPT !.cameAt = now] ELSE h

\* ------------------------------------------------------------------- Init
Init ==
  /\ variant \in {"h", "cpp"}
  /\ present \in [Ports -> BOOLEAN]
  /\ pinTx = IF variant = "h" THEN PinOf ELSE [q \in Ports |-> 0]
  /\ clock = StartClock
  /\ pc = "plug"
  /\ rcv = [q \in Ports |-> NoRcv]
  /\ snd = [q \in Ports |-> NoSnd]
  /\ pd = [q \in Ports |-> NoPd]
  /\ hist = [q \in Ports |-> NoHist]
  /\ idl = NoIdl
  /\ chain = NoChain
  /\ codec = NoCodec
  /\ budget \in Budgets
  /\ \/ /\ begun = FALSE
        /\ port = [q \in Ports |-> NewPort]
        /\ hw = [q \in Ports |-> NewHw]
     \/ /\ variant = "h" /\ budget.deltas = {}
        /\ begun = TRUE
        /\ port = [q \in Ports |-> WornPort]
        /\ hw = [q \in Ports |->
                   IF present[q] THEN PortBegin(NewHw, pinTx[q]) ELSE NewHw]

\* rcv, snd, pd and idl tell what the last loop() cycle or the last call did:
\* every later step clears what it does not set.
Forget(r, s, d, i) ==
  /\ (r => rcv' = [q \in Ports |-> NoRcv])
  /\ (s => snd' = [q \in Ports |-> NoSnd])
  /\ (d => pd' = [q \in Ports |-> NoPd])
  /\ (i => idl' = NoIdl)

\* ---------------------------------------------------- environment actions
\* Time passes.  One loop() cycle is short against every interval the code
\* measures, so the clock stands still within a cycle.
Tick ==
  /\ pc = "plug"
  /\ budget.ticks > 0
  /\ \E d \in budget.deltas : clock' = (clock + d) % Wrap
  /\ budget' = [budget EXCEPT !.ticks = @ - 1]
  /\ Forget(TRUE, TRUE, TRUE, TRUE)
  /\ UNCHANGED <<variant, present, pinTx, begun, port, hw, pc, hist, chain, codec>>

\* One byte arrives at port p: the next byte of the frame on the wire, or the
\* header of a new frame.  A byte that arrives during a loop() cycle is read no
\* earlier than one that arrives right before or right after the cycle.
Arrive(p) ==
  /\ begun /\ present[p] /\ pc = "plug"
  /\ budget.bytes > 0 /\ budget.line = p
  /\ Len(hw[p].rx) < RxSize
  /\ IF hw[p].wire = <<>>
     THEN \E h \in WireHeaders :
            hw' = [hw EXCEPT ![p].rx = Append(@, h), ![p].wire = WireBody]
     ELSE hw' = [hw EXCEPT ![p].rx = Append(@, Head(hw[p].wire)),
                           ![p].wire = Tail(@)]
  /\ hist' = [hist EXCEPT ![p] = HistCame(@, clock, Len(hw[p].rx) + 1)]
  /\ budget' = [budget EXCEPT !.bytes = @ - 1]
  /\ Forget(TRUE, TRUE, TRUE, TRUE)
  /\ UNCHANGED <<variant, present, pinTx, begun, clock, port, pc, chain, codec>>

\* A whole frame arrives at port p before the program looks again: five bytes
\* at 3 Mbaud take less time than one loop() cycle may.
ArriveFrame(p) ==
  /\ begun /\ present[p] /\ pc = "plug"
  /\ budget.frames > 0
  /\ hw[p].wire = <<>>
  /\ Len(hw[p].rx) + FrameSize <= RxSize
  /\ \E h \in WireHeaders : hw' = [hw EXCEPT ![p].rx = @ \o (<<h>> \o WireBody)]
  /\ budget' = [budget EXCEPT !.frames = @ - 1]
  /\ Forget(TRUE, TRUE, TRUE, TRUE)
  /\ UNCHANGED <<variant, present, pinTx, begun, clock, port, pc, hist, chain, codec>>

\* The peripheral has put the queued bytes of port p on the line before the
\* program looks again.
TxDrain(p) ==
  /\ pc = "plug"
  /\ Len(hw[p].tx) > 0
  /\ hw' = [hw EXCEPT ![p].tx = <<>>]
  /\ Forget(TRUE, TRUE, TRUE, TRUE)
  /\ UNCHANGED <<variant, present, pinTx, begun, clock, port, pc, hist, chain, codec,
                 budget>>

\* What the receive step of a port leaves in rcv[p]: the call, what it saw and
\* returned, the packets handed to the local handler and the bytes written.
RcvOf(P, H, now, r, h, handled, txPre, txPost) ==
  [polled |-> TRUE, at |-> now, ret |-> r.ret, data |-> r.data,
   pre |-> P, post |-> r.port, rxPre |-> H.rx, rxPost |-> r.hw.rx,
   seen |-> h.seen, seenAt |-> h.seenAt, seenN |-> h.seenN, cameAt |-> h.cameAt,
   handled |-> handled,
   txPre |-> txPre, txPost |-> txPost]

\* -------------------------------------------------------- program actions
\* V2Link::begin()
Begin ==
  /\ ~begun /\ pc = "plug"
  /\ begun' = TRUE
  /\ hw' = [q \in Ports |-> IF present[q] THEN PortBegin(hw[q], pinTx[q]) ELSE hw[q]]
  /\ UNCHANGED <<variant, present, pinTx, clock, port, pc, rcv, snd, pd,
                 hist, idl, chain, codec, budget>>

\* A loop() that leaves out the plug's powerDown().
AfterPlugStep_NoPowerDown(plugPresent) == "socket"

\* loop() after the plug's receive: plug->powerDown() is inside if (plug), ahead
\* of if (socket); the .cpp has no powerDown().
AfterPlugStep(plugPresent) ==
  IF plugPresent /\ variant = "h" THEN "plugPowerDown" ELSE "socket"

\* loop(), first part: if (plug) { if (plug->receive(&packet)) { forward to the
\* socket when the address is above 0, receivePlug() otherwise } ...
LoopPlug ==
  /\ begun /\ pc = "plug"
  /\ LET r == PortReceive(port["plug"], hw["plug"], clock)
         fwd == r.ret /\ PlugForwards(r.data) /\ present["socket"]
         s == PortSend(port["socket"], hw["socket"], pinTx["socket"], clock,
                       DownAddress(r.data), r.data)
         handled == IF r.ret THEN PlugDispatch(r.data) ELSE <<>>
         txPre == [q \in Ports |-> hw[q].tx]
         txPost == [q \in Ports |-> IF q = "socket" /\ fwd THEN s.hw.tx ELSE hw[q].tx]
     IN IF ~present["plug"]
        THEN /\ UNCHANGED <<port, hw, hist>>
             /\ rcv' = [q \in Ports |-> NoRcv]
             /\ snd' = [q \in Ports |-> NoSnd]
        ELSE /\ port' = [port EXCEPT !["plug"] = r.port,
                                     !["socket"] = IF fwd THEN s.port ELSE @]
             /\ hw' = [hw EXCEPT !["plug"] = r.hw,
                                 !["socket"] = IF fwd THEN s.hw ELSE @]
             /\ rcv' = [q \in Ports |->
                         IF q = "plug"
                         THEN RcvOf(port[q], hw[q], clock, r, hist[q], handled,
                                    txPre, txPost)
                         ELSE NoRcv]
             /\ snd' = [q \in Ports |->
                         IF q = "socket" /\ fwd
                         THEN SndOf(port[q], hw[q], clock, DownAddress(r.data), r.data, s)
                         ELSE NoSnd]
             /\ hist' = [hist EXCEPT
                           !["plug"] = HistPolled(@, clock, available(hw["plug"]), r),
                           !["socket"] = IF fwd THEN HistSent(@, clock) ELSE @]
  /\ pd' = [q \in Ports |-> NoPd]
  /\ idl' = NoIdl
  /\ pc' = AfterPlugStep(present["plug"])
  /\ UNCHANGED <<variant, present, pinTx, begun, clock, chain, codec, budget>>

\* loop() of V2Link.h: plug->powerDown(), still inside if (plug).
LoopPlugPowerDown ==
  /\ pc = "plugPowerDown"
  /\ LET d == PortPowerDown(port["plug"], hw["plug"], pinTx["plug"], clock)
     IN /\ port' = [port EXCEPT !["plug"] = d.port]
        /\ hw' = [hw EXCEPT !["plug"] = d.hw]
        /\ pd' = [pd EXCEPT !["plug"] =
                    [called |-> TRUE, at |-> clock, pre |-> port["plug"],
                     post |-> d.port, preHw |-> hw["plug"], postHw |-> d.hw,
                     acted |-> hist["plug"].acted, actedAt |-> hist["plug"].actedAt]]
  /\ pc' = "socket"
  /\ UNCHANGED <<variant, present, pinTx, begun, clock, rcv, snd, hist, idl,
                 chain, codec, budget>>

\* loop(), second part: if (socket) { if (socket->receive(&packet)) { forward to
\* the plug when there is one and the address is below 15; receiveSocket() } ...
LoopSocket ==
  /\ pc = "socket"
  /\ LET r == PortReceive(port["socket"], hw["socket"], clock)
         fwd == r.ret /\ SocketForwards(present["plug"], r.data)
         s == PortSend(port["plug"], hw["plug"], pinTx["plug"], clock,
                       UpAddress(r.data), r.data)
         handled == IF r.ret THEN SocketDispatch(present["plug"], r.data) ELSE <<>>
         txPre == [q \in Ports |-> hw[q].tx]
         txPost == [q \in Ports |-> IF q = "plug" /\ fwd THEN s.hw.tx ELSE hw[q].tx]
     IN IF ~present["socket"]
        THEN UNCHANGED <<port, hw, hist, rcv, snd>>
        ELSE /\ port' = [port EXCEPT !["socket"] = r.port,
                                     !["plug"] = IF fwd THEN s.port ELSE @]
             /\ hw' = [hw EXCEPT !["socket"] = r.hw,
                                 !["plug"] = IF fwd THEN s.hw ELSE @]
             /\ rcv' = [rcv EXCEPT !["socket"] =
                          RcvOf(port["socket"], hw["socket"], clock, r,
                                hist["socket"], handled, txPre, txPost)]
             /\ snd' = [snd EXCEPT !["plug"] =
                          IF fwd
                          THEN SndOf(port["plug"], hw["plug"], clock,
                                     UpAddress(r.data), r.data, s)
                          ELSE @]
             /\ hist' = [hist EXCEPT
                           !["socket"] = HistPolled(@, clock, available(hw["socket"]), r),
                           !["plug"] = IF fwd THEN HistSent(@, clock) ELSE @]
  /\ pc' = IF present["socket"] /\ variant = "h" THEN "socketPowerDown" ELSE "plug"
  /\ UNCHANGED <<variant, present, pinTx, begun, clock, pd, idl, chain, codec, budget>>

\* loop() of V2Link.h: socket->powerDown(), still inside if (socket).
LoopSocketPowerDown ==
  /\ pc = "socketPowerDown"
  /\ LET d == PortPowerDown(port["socket"], hw["socket"], pinTx["socket"], clock)
     IN /\ port' = [port EXCEPT !["socket"] = d.port]
        /\ hw' = [hw EXCEPT !["socket"] = d.hw]
        /\ pd' = [pd EXCEPT !["socket"] =
                    [called |-> TRUE, at |-> clock, pre |-> port["socket"],
                     post |-> d.port, preHw |-> hw["socket"], postHw |-> d.hw,
                     acted |-> hist["socket"].acted,
                     actedAt |-> hist["socket"].actedAt]]
  /\ pc' = "plug"
  /\ UNCHANGED <<variant, present, pinTx, begun, clock, rcv, snd, hist, idl,
                 chain, codec, budget>>

\* The application calls Port.send(address, packet) on a port of the Link,
\* between two loop() calls.
AppSend(p, address, data) ==
  /\ begun /\ pc = "plug" /\ present[p]
  /\ budget.sends > 0
  /\ LET s == PortSend(port[p], hw[p], pinTx[p], clock, address, data)
     IN /\ port' = [port EXCEPT ![p] = s.port]
        /\ hw' = [hw EXCEPT ![p] = s.hw]
        /\ snd' = [q \in Ports |->
                    IF q = p THEN SndOf(port[p], hw[p], clock, address, data, s)
                    ELSE NoSnd]
  /\ hist' = [hist EXCEPT ![p] = HistSent(@, clock)]
  /\ budget' = [budget EXCEPT !.sends = @ - 1]
  /\ Forget(TRUE, FALSE, TRUE, TRUE)
  /\ UNCHANGED <<variant, present, pinTx, begun, clock, pc, chain, codec>>

\* The application calls V2Link::idle(), between two loop() calls.
AppIdle ==
  /\ begun /\ pc = "plug"
  /\ LET each == [q \in Ports |-> PortIdle(port[q], hw[q], clock)]
     IN idl' = [called |-> TRUE, at |-> clock, ret |-> LinkIdle(present, each),
                each |-> each, avail |-> [q \in Ports |-> available(hw[q])],
                sent |-> [q \in Ports |-> hist[q].sent],
                sentAt |-> [q \in Ports |-> hist[q].sentAt]]
  /\ Forget(TRUE, TRUE, TRUE, FALSE)
  /\ UNCHANGED <<variant, present, pinTx, begun, clock, port, hw, pc, hist,
                 chain, codec, budget>>

Next ==
  \/ Tick
  \/ \E p \in Ports : Arrive(p)
  \/ \E p \in Ports : ArriveFrame(p)
  \/ \E p \in Ports : TxDrain(p)
  \/ Begin
  \/ LoopPlug
  \/ LoopPlugPowerDown
  \/ LoopSocket
  \/ LoopSocketPowerDown
  \/ \E p \in Ports, a \in AppAddresses, k \in AppPackets : AppSend(p, a, k)
  \/ AppIdle

Spec == Init /\ [][Next]_vars

\* ------------------------------------------------------------- a chain
\* A chain of chain.n Links, Link 1 at the head: the plug of Link i + 1 is wired
\* to the socket of Link i.  With chain.ends the head has a plug and the last
\* Link a socket, wired to nothing.  One packet has arrived at Link chain.pos, on
\* its socket when chain.dir is "up" and on its plug when it is "down".
ChainPlug(c) == c.pos > 1 \/ c.ends
ChainSocket(c) == c.pos < c.n \/ c.ends

\* The packet has left the chain, or goes on to the neighbour.
ChainMove(c, to, data) ==
  [c EXCEPT !.pos = IF to \in 1..c.n THEN to ELSE @,
            !.done = ~(to \in 1..c.n),
            !.data = data,
            !.hops = @ + 1]

\* loop() of the Link that holds the packet: the socket step for a packet that
\* travels up, the plug step for one that travels down.  free tells whether the
\* port it is written to has room for a frame.
ChainLoop(c, free) ==
  LET seen == [c EXCEPT !.lastAddress = getAddress(c.data)] IN
  IF c.dir = "up"
  THEN IF SocketForwards(ChainPlug(c), c.data)
       THEN IF free
            THEN ChainMove([seen EXCEPT !.last = "sent", !.lastPresent = TRUE],
                           c.pos - 1, WireFrame(UpAddress(c.data), c.data))
            ELSE [seen EXCEPT !.last = "full", !.lastPresent = TRUE, !.done = TRUE]
       ELSE [seen EXCEPT !.last = "local", !.lastPresent = ChainPlug(c), !.done = TRUE]
  ELSE IF PlugForwards(c.data)
       THEN IF ChainSocket(c)
            THEN IF free
                 THEN ChainMove([seen EXCEPT !.last = "sent", !.lastPresent = TRUE],
                                c.pos + 1, WireFrame(DownAddress(c.data), c.data))
                 ELSE [seen EXCEPT !.last = "full", !.lastPresent = TRUE, !.done = TRUE]
            ELSE [seen EXCEPT !.last = "dropped", !.lastPresent = FALSE, !.done = TRUE]
       ELSE [seen EXCEPT !.last = "local", !.lastPresent = ChainSocket(c), !.done = TRUE]

ChainInit ==
  /\ variant = "h"
  /\ present = [q \in Ports |-> TRUE]
  /\ pinTx = PinOf
  /\ begun = TRUE
  /\ clock = StartClock
  /\ port = [q \in Ports |-> NewPort]
  /\ hw = [q \in Ports |-> NewHw]
  /\ pc = "plug"
  /\ rcv = [q \in Ports |-> NoRcv]
  /\ snd = [q \in Ports |-> NoSnd]
  /\ pd = [q \in Ports |-> NoPd]
  /\ hist = [q \in Ports |-> NoHist]
  /\ idl = NoIdl
  /\ codec = NoCodec
  /\ budget = [ticks |-> 0, deltas |-> {}, bytes |-> 0, line |-> "plug",
               frames |-> 0, sends |-> 0]
  /\ \E n \in 1..MaxChain, e \in BOOLEAN, a \in 0..MaxAddress, t \in {0, 1},
        d \in {"up", "down"} :
       \E i \in 1..n :
         chain = [n |-> n, ends |-> e, pos |-> i, dir |-> d,
                  data |-> <<a * 16 + t>> \o WireBody, hops |-> 0, done |-> FALSE,
                  last |-> "none", lastAddress |-> 0, lastPresent |-> FALSE]

\* The Link that holds the packet runs loop().
ChainRelay ==
  /\ ~chain.done
  /\ \E free \in BOOLEAN : chain' = ChainLoop(chain, free)
  /\ UNCHANGED <<variant, present, pinTx, begun, clock, port, hw, pc, rcv, snd,
                 pd, hist, idl, budget, codec>>

ChainNext == ChainRelay

\* Every Link of the chain keeps calling loop().
SpecChain == ChainInit /\ [][ChainNext]_vars /\ WF_vars(ChainRelay)

\* ------------------------------------------------------------ the codec
\* Bytes a MIDI payload is made of.
MidiBytes == {0, 144, 255}

\* Header bytes a Packet may hold before it is encoded into.
StoredHeaders == {0, 1, 241}

\* Powers and durations the application asks for.
PulseWatts == {0 - 5, 0, 50, 100, 150}
PulseSeconds == {0 - 5, 0, 5, 10, 100, 150}

\* Packet::send(V2MIDI::Packet*): V2Link.h stores the type MIDI, the .cpp
\* leaves the header byte as it is; both copy the four bytes into the body.
PacketSend(data, midi) ==
  <<IF variant = "h" THEN 0 ELSE data[1]>> \o midi

\* Packet::receive(V2MIDI::Packet*): V2Link.h refuses a packet that is not of
\* type MIDI; the .cpp stores the type MIDI and hands out the body of any packet.
PacketReceive(data) ==
  IF variant = "h"
  THEN IF getType(data) # 0
       THEN [ret |-> FALSE, midi |-> <<>>, data |-> data]
       ELSE [ret |-> TRUE, midi |-> SubSeq(data, 2, FrameSize), data |-> data]
  ELSE [ret |-> TRUE, midi |-> SubSeq(data, 2, FrameSize),
        data |-> <<0>> \o SubSeq(data, 2, FrameSize)]

\* float, as a fixed-point number: one is Unit.
Unit == 1024

\* The square root and the cube root of n, rounded down.
ISqrt(n) == CHOOSE r \in 0..Unit : r * r <= n /\ (r + 1) * (r + 1) > n
ICbrt(n) == CHOOSE r \in 0..Unit : r * r * r <= n /\ (r + 1) * (r + 1) * (r + 1) > n

\* powf(fraction, 1.f / n) of a fraction in 0..1: n is 3 or 8.
Root(f, n) ==
  IF n = 3 THEN ICbrt(f * Unit * Unit)
  ELSE ISqrt(ISqrt(ISqrt(f * Unit) * Unit) * Unit)

\* The longest pulse and the root its duration is encoded with.
MaxSeconds == IF variant = "h" THEN 100 ELSE 10
SecondsRoot == IF variant = "h" THEN 8 ELSE 3

\* What uint16_t(NaN) may give: the conversion is undefined.
UndefinedMaps == {0, 4095, 65535}

\* setPulse's map of a value: if (x > max) x = max; uint16_t(powf(x / max,
\* 1.f / n) * 4095.f).  powf of a negative fraction is NaN.
Maps(x, max, n) ==
  LET c == IF x > max THEN max ELSE x IN
  IF c < 0 THEN UndefinedMaps
  ELSE {(Root((c * Unit) \div max, n) * 4095) \div Unit}

\* a | b of two bytes.
RECURSIVE BitOr(_, _)
BitOr(a, b) ==
  IF a = 0 THEN b
  ELSE IF b = 0 THEN a
  ELSE (IF a % 2 = 1 \/ b % 2 = 1 THEN 1 ELSE 0) + 2 * BitOr(a \div 2, b \div 2)

\* Packet::setPulse, given the two maps it computed.
setPulse(pulse, watts, seconds) ==
  << 1,
     (pulse.port % 16) + (IF pulse.fadeIn THEN 16 ELSE 0)
                       + (IF pulse.fadeOut THEN 32 ELSE 0),
     BitOr(((watts \div 256) * 16) % 256, (seconds \div 256) % 256),
     watts % 256,
     seconds % 256 >>

\* The 12-bit fields getPulse reads.
WattsField(data) == (data[3] \div 16) * 256 + data[4]
SecondsField(data) == (data[3] % 16) * 256 + data[5]

CodecInit ==
  /\ variant \in {"h", "cpp"}
  /\ present = [q \in Ports |-> TRUE]
  /\ pinTx = PinOf
  /\ begun = TRUE
  /\ clock = StartClock
  /\ port = [q \in Ports |-> NewPort]
  /\ hw = [q \in Ports |-> NewHw]
  /\ pc = "plug"
  /\ rcv = [q \in Ports |-> NoRcv]
  /\ snd = [q \in Ports |-> NoSnd]
  /\ pd = [q \in Ports |-> NoPd]
  /\ hist = [q \in Ports |-> NoHist]
  /\ idl = NoIdl
  /\ chain = NoChain
  /\ budget = [ticks |-> 0, deltas |-> {}, bytes |-> 0, line |-> "plug",
               frames |-> 0, sends |-> 0]
  /\ \/ \E a \in 0..MaxAddress, h \in 0..MaxAddress, t \in {0, 1} :
          codec = [NoCodec EXCEPT !.op = "header", !.done = FALSE, !.address = a,
                                  !.data = <<h * 16 + t>> \o WireBody]
     \/ \E h \in StoredHeaders, m \in [1..4 -> MidiBytes] :
          codec = [NoCodec EXCEPT !.op = "midi", !.done = FALSE, !.midi = m,
                                  !.data = <<h>> \o WireBody]
     \/ \E h \in StoredHeaders :
          codec = [NoCodec EXCEPT !.op = "decode", !.done = FALSE,
                                  !.out = <<h>> \o WireBody]
     \/ \E w \in PulseWatts, x \in PulseSeconds, q \in {3, 18}, i, o \in BOOLEAN :
          codec = [NoCodec EXCEPT !.op = "pulse", !.done = FALSE,
                     !.pulse = [port |-> q, watts |-> w, seconds |-> x,
                                fadeIn |-> i, fadeOut |-> o]]

CodecRest ==
  UNCHANGED <<variant, present, pinTx, begun, clock, port, hw, pc, rcv, snd, pd,
              hist, idl, chain, budget>>

\* Port::send(address, packet) writes the frame; the receiver reads it.
CodecHeader ==
  /\ codec.op = "header" /\ ~codec.done
  /\ codec' = [codec EXCEPT !.done = TRUE, !.out = WireFrame(codec.address, codec.data)]
  /\ CodecRest

\* packet.send(&midi)
CodecEncode ==
  /\ codec.op = "midi"
  /\ codec' = [codec EXCEPT !.op = "decode", !.out = PacketSend(codec.data, codec.midi)]
  /\ CodecRest

\* packet.receive(&midi)
CodecDecode ==
  /\ codec.op = "decode" /\ ~codec.done
  /\ LET r == PacketReceive(codec.out)
     IN codec' = [codec EXCEPT !.done = TRUE, !.ret = r.ret, !.got = r.midi]
  /\ CodecRest

\* packet.setPulse(&pulse)
CodecPulse ==
  /\ codec.op = "pulse" /\ ~codec.done
  /\ \E w \in Maps(codec.pulse.watts, 100, 3),
        x \in Maps(codec.pulse.seconds, MaxSeconds, SecondsRoot) :
       codec' = [codec EXCEPT !.done = TRUE, !.out = setPulse(codec.pulse, w, x)]
  /\ CodecRest

CodecNext == CodecHeader \/ CodecEncode \/ CodecDecode \/ CodecPulse

SpecCodec == CodecInit /\ [][CodecNext]_vars

\* ------------------------------------------------------------ properties
\* The bytes the receive step recorded in r appended to the transmit queue of port q.
Wrote(r, q) == SubSeq(r.txPost[q], Len(r.txPre[q]) + 1, Len(r.txPost[q]))

\* The step recorded in r took nothing back from the transmit queue of port q.
KeepsQueued(r, q) ==
  /\ Len(r.txPost[q]) >= Len(r.txPre[q])
  /\ SubSeq(r.txPost[q], 1, Len(r.txPre[q])) = r.txPre[q]

\* The write space of port q when the step recorded in r began.
SpaceBefore(r, q) == TxSize - Len(r.txPre[q])

\* The frame that carries the type and body of data under address a.
Readdressed(a, data) == <<a * 16 + (data[1] % 16), data[2], data[3], data[4], data[5]>>

\* C1: upstream relay.  With both ports present, when the socket step of a
\* loop() cycle receives a packet with address a < 15 and the plug has room for
\* five bytes, the step appends exactly one frame to the plug's transmit queue:
\* address a + 1, the packet's type nibble and its four body bytes; it writes
\* nothing to the socket.
C1_UpstreamRelay ==
  LET r == rcv["socket"] IN
  (/\ present["plug"] /\ present["socket"]
   /\ r.polled /\ r.ret
   /\ getAddress(r.data) < 15
   /\ SpaceBefore(r, "plug") >= 5)
  => /\ KeepsQueued(r, "plug")
     /\ Wrote(r, "plug") = Readdressed(getAddress(r.data) + 1, r.data)
     /\ r.txPost["socket"] = r.txPre["socket"]
     /\ hw["plug"].tx = r.txPost["plug"]
     /\ hw["socket"].tx = r.txPost["socket"]

\* A socket step has relayed a packet with address 14 to the plug.
C1_Witness ==
  LET r == rcv["socket"] IN
  /\ present["plug"] /\ r.polled /\ r.ret
  /\ getAddress(r.data) = 14
  /\ Len(Wrote(r, "plug")) = 5

\* C2: downstream relay.  A packet the plug step receives with address 0 is not
\* written to the socket and is handed to receivePlug once; one with address
\* a > 0 is never handed to receivePlug, is written to the socket with address
\* a - 1 and the same type and body when the socket is present and has room, and
\* is written nowhere when the socket is absent.  The plug's own queue is left alone.
C2_DownstreamRelay ==
  LET r == rcv["plug"] IN
  (r.polled /\ r.ret)
  => /\ KeepsQueued(r, "socket")
     /\ r.txPost["plug"] = r.txPre["plug"]
     /\ IF getAddress(r.data) = 0
        THEN /\ Wrote(r, "socket") = <<>>
             /\ r.handled = <<r.data>>
        ELSE /\ r.handled = <<>>
             /\ (present["socket"] /\ SpaceBefore(r, "socket") >= 5
                   => Wrote(r, "socket") = Readdressed(getAddress(r.data) - 1, r.data))
             /\ (~present["socket"] => Wrote(r, "socket") = <<>>)

\* A plug step has relayed a packet with an address above 0 to the socket.
C2_Witness ==
  LET r == rcv["plug"] IN
  /\ r.polled /\ r.ret /\ getAddress(r.data) > 0
  /\ present["socket"] /\ Len(Wrote(r, "socket")) = 5

\* C4: every packet the socket step receives is handed to receiveSocket exactly
\* once in that step, whatever its address, whether or not there is a plug and
\* whether the relay to the plug wrote the frame, found no room or was skipped.
C4_SocketDispatch ==
  LET r == rcv["socket"] IN
  (r.polled /\ r.ret) => r.handled = <<r.data>>

\* A socket step received a packet with an address below 15 while the plug had no
\* room for it, so nothing was written.
C4_Witness ==
  LET r == rcv["socket"] IN
  /\ present["plug"] /\ r.polled /\ r.ret
  /\ getAddress(r.data) < 15
  /\ SpaceBefore(r, "plug") < 5
  /\ Wrote(r, "plug") = <<>>
  /\ r.handled = <<r.data>>

\* C3: chain termination.  In a chain of up to 16 Links a packet that arrives on
\* a socket with address 15 is not written to the plug, also when there is one;
\* every relayed packet carries an address in 0..15, 1..15 after a relay towards
\* the head and 0..14 after one towards the tail, one more or one less than the
\* address it arrived with; a packet is relayed at most 16 times, and in the end
\* no Link relays it any further.
C3_Addresses ==
  /\ getAddress(chain.data) \in 0..15
  /\ chain.hops <= 16
  /\ (chain.last # "none" /\ chain.dir = "up" /\ chain.lastAddress = 15)
       => chain.last = "local" /\ chain.done
  /\ chain.last = "sent"
       => /\ chain.hops > 0
          /\ IF chain.dir = "up"
             THEN /\ getAddress(chain.data) \in 1..15
                  /\ getAddress(chain.data) = chain.lastAddress + 1
             ELSE /\ getAddress(chain.data) \in 0..14
                  /\ getAddress(chain.data) = chain.lastAddress - 1
          /\ getType(chain.data) \in {0, 1}

\* C3: along a chain of at most 16 Links every written address stays in range, a
\* packet of address 15 is not sent on, and relaying comes to an end.
C3_ChainTerminates == []C3_Addresses /\ <>[](chain.done)

\* A packet that started at the tail of a chain of 16 Links with address 0 has
\* been relayed 15 times and stopped at the head with address 15, where a plug is
\* present.
C3_Witness ==
  /\ chain.n = 16 /\ chain.ends /\ chain.dir = "up"
  /\ chain.hops = 15 /\ chain.pos = 1
  /\ chain.lastAddress = 15 /\ chain.lastPresent
  /\ chain.last = "local" /\ chain.done

\* The bytes a send recorded in x appended to the port's transmit queue.
Sent(x) == SubSeq(x.postHw.tx, Len(x.preHw.tx) + 1, Len(x.postHw.tx))

\* The send recorded in x took nothing back from the transmit queue.
SendKeepsQueued(x) ==
  /\ Len(x.postHw.tx) >= Len(x.preHw.tx)
  /\ SubSeq(x.postHw.tx, 1, Len(x.preHw.tx)) = x.preHw.tx

\* C5 as claimed: a Port.send that finds fewer than 5 bytes of write space
\* returns false and changes nothing: no byte is written, the output counter, the
\* activity flag, the transmit-enable line and the last-activity timestamp are as
\* before; a send that returns true has written exactly 5 bytes.
C5_FailsWithoutEffect ==
  \A p \in Ports :
    LET x == snd[p] IN
    x.called
    => /\ (TxSize - Len(x.preHw.tx) < 5)
            => /\ ~x.ret
               /\ x.postHw.tx = x.preHw.tx
               /\ x.post.output = x.pre.output
               /\ x.post.active = x.pre.active
               /\ x.postHw.pin = x.preHw.pin
               /\ x.post.usec = x.pre.usec
       /\ x.ret => Len(Sent(x)) = 5

\* C5 as amended: a Port.send that finds fewer than 5 bytes of write space
\* returns false, writes no byte and leaves the output counter, the partial-frame
\* timer and the receive side as they were, but it does set the last-activity
\* timestamp to the current time and, in V2Link.h, sets the activity flag and
\* asserts the transmit-enable line when the port was not active; a send that
\* finds 5 bytes or more returns true and has written exactly the 5 bytes of the
\* frame behind what was queued.
C5_FailsWithoutWrite ==
  \A p \in Ports :
    LET x == snd[p] IN
    x.called
    => /\ SendKeepsQueued(x)
       /\ x.ret = (TxSize - Len(x.preHw.tx) >= 5)
       /\ ~x.ret => /\ x.postHw.tx = x.preHw.tx
                    /\ x.post.output = x.pre.output
       /\ x.ret => /\ Sent(x) = Readdressed(x.address % 16, x.data)
                   /\ variant = "h" => x.post.output = (x.pre.output + 1) % Wrap
       /\ x.post.usec = x.at
       /\ x.post.timeoutUsec = x.pre.timeoutUsec
       /\ x.post.input = x.pre.input
       /\ x.postHw.rx = x.preHw.rx
       /\ IF variant = "h"
          THEN /\ x.post.active
               /\ x.postHw.pin =
                    IF ~x.pre.active /\ pinTx[p] > 0 THEN "HIGH" ELSE x.preHw.pin
          ELSE /\ x.post.active = x.pre.active
               /\ x.postHw.pin = x.preHw.pin

\* A send found too little write space on an inactive port at a later time than
\* the port's last activity.
C5_Witness ==
  \E p \in Ports :
    LET x == snd[p] IN
    /\ x.called /\ ~x.ret
    /\ TxSize - Len(x.preHw.tx) < 5
    /\ x.post.usec # x.pre.usec

\* The receive step recorded in r: the bytes pending before it.
Avail(r) == Len(r.rxPre)

\* C6: a Port.receive that finds n >= 5 bytes pending returns true, takes exactly
\* the 5 oldest bytes in their order of arrival as the packet, leaves the other
\* n - 5 pending and sets the partial-frame timer to zero; a call that returns
\* false leaves every byte pending unless it drains the whole queue on a
\* timeout; no call takes more than one packet or counts more than one.
C6_OnePacket ==
  \A p \in Ports :
    LET r == rcv[p] IN
    r.polled
    => /\ r.ret = (Avail(r) >= 5)
       /\ r.ret => /\ r.data = SubSeq(r.rxPre, 1, 5)
                   /\ r.rxPost = SubSeq(r.rxPre, 6, Avail(r))
                   /\ Len(r.rxPost) = Avail(r) - 5
                   /\ r.post.timeoutUsec = 0
                   /\ r.post.input = (r.pre.input + (IF variant = "h" THEN 1 ELSE 0)) % Wrap
       /\ ~r.ret => /\ r.rxPost = r.rxPre \/ r.rxPost = <<>>
                    /\ r.rxPost # r.rxPre => TimedOut(r.at, r.pre.timeoutUsec)
                    /\ r.post.input = r.pre.input

\* A receive found six bytes pending, returned the first five and left the sixth.
C6_Witness ==
  \E p \in Ports :
    LET r == rcv[p] IN
    /\ r.polled /\ r.ret /\ Avail(r) = 6 /\ Len(r.rxPost) = 1
    /\ r.rxPost[1] = r.rxPre[6]

\* C7 as claimed: when a poll has seen 1 to 4 pending bytes and no further byte
\* has arrived, a poll more than 100 microseconds after that first one discards
\* every pending byte, sets the partial-frame timer to zero, returns no packet and
\* leaves the input counter as it was; a poll within the 100 microseconds, the
\* first one included, discards nothing.
C7_PartialFrameTimeout ==
  \A p \in Ports :
    LET r == rcv[p] IN
    (r.polled /\ Avail(r) \in 1..4)
    => /\ ~r.ret
       /\ r.post.input = r.pre.input
       /\ ~r.seen => r.rxPost = r.rxPre
       /\ (r.seen /\ r.seenN = Avail(r))
            => IF Elapsed(r.at, r.seenAt) > 100
               THEN r.rxPost = <<>> /\ r.post.timeoutUsec = 0
               ELSE r.rxPost = r.rxPre

\* C8, one powerDown() of a loop() cycle: an active port stays active, its
\* transmit-enable line as it was, while less than 100 ms have passed since the
\* port last sent or found bytes to receive, and becomes inactive, the line low,
\* at 100 ms or more; an inactive port is left inactive.
C8_PowerDownStep ==
  \A p \in Ports :
    LET d == pd[p] IN
    d.called
    => IF d.pre.active
       THEN /\ d.acted
            /\ Elapsed(d.at, d.actedAt) < 100000
                 => d.post.active /\ d.postHw.pin = d.preHw.pin
            /\ Elapsed(d.at, d.actedAt) >= 100000
                 => /\ ~d.post.active
                    /\ pinTx[p] > 0 => d.postHw.pin = "LOW"
       ELSE ~d.post.active /\ d.postHw.pin = d.preHw.pin

\* C8, between the cycles: only powerDown() makes an active port inactive, and
\* only a send makes an inactive port active.
C8_ActiveChanges ==
  \A p \in Ports :
    /\ (port[p].active /\ ~port'[p].active) => pd'[p].called
    /\ (~port[p].active /\ port'[p].active) => snd'[p].called

\* C8: after a Port.send the port stays active on every loop() cycle at which
\* less than 100 ms have passed since its last activity (a send, or a receive
\* that found bytes), becomes inactive on the first cycle at which 100 ms or more
\* have passed, and an inactive port stays inactive until the next send.
C8_PowerDown == []C8_PowerDownStep /\ [][C8_ActiveChanges]_vars

\* A port that sent was powered down at exactly 100 ms after its last activity,
\* and its transmit-enable line went low.
C8_Witness ==
  \E p \in Ports :
    LET d == pd[p] IN
    /\ d.called /\ d.pre.active /\ ~d.post.active
    /\ Elapsed(d.at, d.actedAt) = 100000
    /\ pinTx[p] > 0 /\ d.preHw.pin = "HIGH" /\ d.postHw.pin = "LOW"

\* C9 as claimed: Port.idle() returns true whenever the peripheral has no byte
\* available and the port has not sent within the last 1000 microseconds, and
\* returns false while bytes are pending.
C9_QuietIdle ==
  idl.called
  => \A p \in Ports :
       present[p]
       => /\ (idl.avail[p] = 0
               /\ (~idl.sent[p] \/ Elapsed(idl.at, idl.sentAt[p]) >= 1000))
             => idl.each[p]
          /\ idl.avail[p] > 0 => ~idl.each[p]

\* C10, the result: V2Link::idle() returns true exactly when Port.idle() is true
\* of every present port, whichever ports are present.
C10_Result ==
  idl.called
  => /\ idl.at = clock
     /\ idl.ret = (\A p \in Ports : present[p] => PortIdle(port[p], hw[p], clock))
     /\ (\A p \in Ports : ~present[p]) => idl.ret

\* C10, the call: V2Link::idle() changes nothing of the Link, its ports, the
\* peripherals or the position in the loop.
C10_NoChange ==
  idl'.called => UNCHANGED <<present, pinTx, begun, clock, port, hw, pc>>

\* C10: Link.idle() equals the conjunction of Port.idle() over the present ports
\* (true when there is none) in each of the four configurations, and the call
\* changes no state.
C10_LinkIdle == []C10_Result /\ [][C10_NoChange]_vars

\* Both ports are present, the plug is idle, the socket is not, and idle()
\* returned false.
C10_Witness ==
  /\ idl.called /\ ~idl.ret
  /\ present["plug"] /\ present["socket"]
  /\ idl.each["plug"] /\ ~idl.each["socket"]

\* C11: header round trip.  For every address 0..15 and either type, the header
\* byte Port.send writes decodes at the receiver to that address and to the type
\* the packet holds; the type nibble on the wire is the stored type nibble,
\* whatever the address and whatever the stored byte's upper nibble, and the
\* body follows unchanged.
C11_HeaderRoundTrip ==
  (codec.op = "header" /\ codec.done)
  => /\ Len(codec.out) = 5
     /\ getAddress(codec.out) = codec.address
     /\ getType(codec.out) = getType(codec.data)
     /\ getType(codec.out) \in {0, 1}
     /\ codec.out[1] % 16 = codec.data[1] % 16
     /\ SubSeq(codec.out, 2, 5) = SubSeq(codec.data, 2, 5)

\* A Pulse packet that still holds address 15 from its arrival was sent with
\* address 9 and reads as address 9, type Pulse.
C11_Witness ==
  /\ codec.op = "header" /\ codec.done
  /\ codec.address = 9 /\ codec.data[1] = 241
  /\ codec.out[1] = 145
  /\ getAddress(codec.out) = 9 /\ getType(codec.out) = 1

\* C12 as claimed: Packet::send of a 4-byte MIDI payload leaves a packet of type
\* MIDI whose body is the payload, Packet::receive of that packet succeeds and
\* gives exactly the payload, and Packet::receive of a packet whose type is not
\* MIDI gives no payload.
C12_MidiRoundTrip ==
  /\ (codec.op = "decode" /\ codec.midi # <<>>)
       => /\ getType(codec.out) = 0
          /\ SubSeq(codec.out, 2, 5) = codec.midi
          /\ codec.done => codec.ret /\ codec.got = codec.midi
  /\ (codec.op = "decode" /\ codec.done /\ getType(codec.out) # 0)
       => ~codec.ret /\ codec.got = <<>>

\* The value the spec clamps x to.
Clamped(x, max) == IF x < 0 THEN 0 ELSE IF x > max THEN max ELSE x

\* C13 as claimed: setPulse encodes a power as it encodes the power clamped to
\* 0..100 and a duration as it encodes the duration clamped to 0..max: both
\* 12-bit fields hold the map of the clamped value, at most 4095, so that 150
\* watts give the frame of 100 watts and -5 seconds the frame of 0 seconds.
C13_PulseClamped ==
  (codec.op = "pulse" /\ codec.done)
  => LET p == codec.pulse
         c == [p EXCEPT !.watts = Clamped(@, 100), !.seconds = Clamped(@, MaxSeconds)]
         w == CHOOSE m \in Maps(c.watts, 100, 3) : TRUE
         x == CHOOSE m \in Maps(c.seconds, MaxSeconds, SecondsRoot) : TRUE
     IN /\ w \in 0..4095 /\ x \in 0..4095
        /\ WattsField(codec.out) = w
        /\ SecondsField(codec.out) = x
        /\ codec.out = setPulse(c, w, x)

\* The frame loop() sends on for the packet its receive step on port p took.
Relayed(p, data) ==
  IF p = "plug" THEN Readdressed(getAddress(data) - 1, data)
  ELSE Readdressed(getAddress(data) + 1, data)

\* loop() is to send the packet taken from port p on to the other port.
ToRelay(p, data) ==
  /\ present[Other(p)]
  /\ IF p = "plug" THEN getAddress(data) > 0 ELSE getAddress(data) < 15

\* C14 as claimed: no packet is lost in the relay path.  A packet has one copy,
\* loop()'s local Packet, which is gone when the step returns; so a packet that
\* loop() took from a port to send on is, when the step has run, either written
\* to the other port or still pending on the port it came from.
C14_RelayNoLoss ==
  \A p \in Ports :
    LET r == rcv[p] IN
    (r.polled /\ r.ret /\ ToRelay(p, r.data))
    => \/ Wrote(r, Other(p)) = Relayed(p, r.data)
       \/ /\ Len(r.rxPost) >= 5
          /\ SubSeq(r.rxPost, 1, 5) = r.data

\* C15 as claimed: from begin() on, a port with a transmit-enable pin has its
\* activity flag set exactly when the pin is driven high.
C15_FlagIsLine ==
  \A p \in Ports :
    (begun /\ present[p] /\ pinTx[p] > 0)
    => (port[p].active <=> hw[p].pin = "HIGH")

\* C16 as claimed: within a loop() cycle the power-down of a port runs only
\* after both receive steps, and a plug the socket step has sent to was not
\* de-asserted by a power-down of that cycle.
C16_PowerDownLast ==
  /\ pd["plug"].called => pc # "socket"
  /\ (pd["plug"].called /\ rcv["socket"].polled /\ rcv["socket"].ret
        /\ snd["plug"].called)
       => ~(pd["plug"].pre.active /\ ~pd["plug"].post.active)

\* C16 as amended: a loop() cycle of V2Link.h runs the plug's receive step, then
\* the plug's power-down, then the socket's receive step, then the socket's
\* power-down, each only for a port that is present (V2Link.cpp has no
\* power-down); a plug the socket step sends to is active when the cycle ends,
\* also when the plug's power-down de-asserted it earlier in that cycle.
C16_LoopOrder ==
  /\ pc \in {"plug", "plugPowerDown", "socket", "socketPowerDown"}
  /\ pc = "plugPowerDown"
       => /\ variant = "h" /\ rcv["plug"].polled
          /\ ~rcv["socket"].polled
          /\ ~pd["plug"].called /\ ~pd["socket"].called
  /\ pc = "socket"
       => /\ ~rcv["socket"].polled /\ ~pd["socket"].called
          /\ present["plug"] => rcv["plug"].polled
          /\ pd["plug"].called <=> (variant = "h" /\ present["plug"])
          /\ pd["plug"].called => pd["plug"].at = clock
  /\ pc = "socketPowerDown"
       => /\ variant = "h" /\ rcv["socket"].polled
          /\ ~pd["socket"].called
          /\ pd["plug"].called <=> present["plug"]
  /\ (rcv["socket"].polled /\ rcv["socket"].ret /\ snd["plug"].called
        /\ variant = "h")
       => /\ port["plug"].active
          /\ pinTx["plug"] > 0 => hw["plug"].pin = "HIGH"

\* The plug's power-down of a cycle de-asserted the plug and the socket step of
\* the same cycle sent to it: at the end of the cycle it is active again.
C16_Witness ==
  /\ pc = "plug"
  /\ pd["plug"].called /\ pd["plug"].pre.active /\ ~pd["plug"].post.active
  /\ pd["plug"].postHw.pin = "LOW"
  /\ rcv["socket"].polled /\ rcv["socket"].ret /\ rcv["socket"].at = pd["plug"].at
  /\ snd["plug"].called /\ snd["plug"].ret
  /\ pd["socket"].called
  /\ port["plug"].active /\ hw["plug"].pin = "HIGH"

\* C17: a powerDown() call changes only the activity flag and the
\* transmit-enable line: the bytes pending for receive, the bytes queued for
\* transmission, the partial-frame timer, the last-activity timestamp and both
\* counters are as before, and the line changes only when the flag does.
C17_PowerDownKeepsData ==
  \A p \in Ports :
    LET d == pd[p] IN
    d.called
    => /\ d.postHw.rx = d.preHw.rx
       /\ d.postHw.tx = d.preHw.tx
       /\ d.postHw.wire = d.preHw.wire
       /\ d.post.timeoutUsec = d.pre.timeoutUsec
       /\ d.post.usec = d.pre.usec
       /\ d.post.input = d.pre.input
       /\ d.post.output = d.pre.output
       /\ d.post.active = d.pre.active => d.postHw.pin = d.preHw.pin

\* A powerDown() made a port inactive while a frame was still queued for
\* transmission, and the frame stayed queued.
C17_Witness ==
  \E p \in Ports :
    LET d == pd[p] IN
    /\ d.called /\ d.pre.active /\ ~d.post.active
    /\ Len(d.preHw.tx) = 5 /\ d.postHw.tx = d.preHw.tx
    /\ d.pre.output = 1 /\ d.post.output = 1

\* C18 as claimed: bytes of a frame that was not complete within 100
\* microseconds of the poll that first saw them are never part of a packet
\* Port.receive returns, also when the missing bytes arrive before the next
\* poll: a packet made of the bytes of a partial frame a poll has seen and of
\* bytes that came later holds no byte that came more than 100 microseconds
\* after that poll.
C18_NoStaleBytes ==
  \A p \in Ports :
    LET r == rcv[p] IN
    (r.polled /\ r.ret /\ r.seen /\ Avail(r) = 5)
    => Elapsed(r.cameAt, r.seenAt) <= 100

\* C19 as claimed: the counters of V2Link.h never decrease: input is one more
\* after a Port.receive that returns a packet and the same after one that
\* returns false, output is one more after a Port.send that returns true and
\* the same after one that fails.
C19_CountersGrow ==
  variant = "h"
  => \A p \in Ports :
       /\ rcv[p].polled
            => /\ rcv[p].post.input >= rcv[p].pre.input
               /\ rcv[p].post.input
                    = rcv[p].pre.input + (IF rcv[p].ret THEN 1 ELSE 0)
       /\ snd[p].called
            => /\ snd[p].post.output >= snd[p].pre.output
               /\ snd[p].post.output
                    = snd[p].pre.output + (IF snd[p].ret THEN 1 ELSE 0)

\* C19 as amended: the counters of V2Link.h are 32 bits wide.  input is one more
\* modulo 2^32 after a Port.receive that returns a packet, which took exactly 5
\* bytes, and the same after one that returns false; output is one more modulo
\* 2^32 after a Port.send that returns true, which wrote exactly 5 bytes, and the
\* same after one that fails, which wrote none; neither call touches the other
\* counter, and a counter decreases only from 2^32 - 1 to 0.
C19_CountersCount ==
  variant = "h"
  => \A p \in Ports :
       /\ rcv[p].polled
            => LET r == rcv[p] IN
               /\ r.post.input = (r.pre.input + (IF r.ret THEN 1 ELSE 0)) % Wrap
               /\ r.post.output = r.pre.output
               /\ r.ret => Len(r.rxPre) - Len(r.rxPost) = 5
               /\ r.post.input < r.pre.input
                    => r.pre.input = Wrap - 1 /\ r.post.input = 0
       /\ snd[p].called
            => LET x == snd[p] IN
               /\ x.post.output = (x.pre.output + (IF x.ret THEN 1 ELSE 0)) % Wrap
               /\ x.post.input = x.pre.input
               /\ Len(Sent(x)) = IF x.ret THEN 5 ELSE 0
               /\ x.post.output < x.pre.output
                    => x.pre.output = Wrap - 1 /\ x.post.output = 0

\* A port that had counted 2^32 - 1 packets received one more: its input
\* counter is 0.
C19_Witness ==
  /\ variant = "h"
  /\ \E p \in Ports :
       /\ rcv[p].polled /\ rcv[p].ret
       /\ rcv[p].pre.input = Wrap - 1 /\ rcv[p].post.input = 0

\* What V2Link::idle() returns when called now.
IdleNow == LinkIdle(present, [q \in Ports |-> PortIdle(port[q], hw[q], clock)])

\* Nothing is pending on a port, and the step neither sends nor brings a byte.
QuietStep ==
  /\ begun
  /\ \A q \in Ports : hw[q].rx = <<>> /\ hw'[q].rx = <<>> /\ ~snd'[q].called

\* C20 as claimed: once the application sends nothing, no byte arrives and
\* nothing is left to receive, loop() and the clock go on and Link.idle() comes
\* to return true and goes on returning true: from a state with nothing pending
\* in which idle() returns true, a step that sends nothing and brings no byte
\* leads to a state in which idle() returns true.
C20_StaysIdle == [][(QuietStep /\ IdleNow) => IdleNow']_vars

====
